---- MODULE Spec2Model ----
(***************************************************************************)
(* State-machine model of the coroutine runtime of STLessCoro:             *)
(* Task / Task::Promise / Task::Awaiter / Result and Scheduler.            *)
(*                                                                         *)
(* A coroutine body is a finite sequence of suspension points ("pause" =   *)
(* co_yield, "await" = co_await of a freshly called coroutine) followed by *)
(* one co_return of a value.  Scheduler::resume() is modelled iteration by *)
(* iteration of its for loop (resume_enter, resume_loop, resume_return).   *)
(***************************************************************************)
EXTENDS Integers, Sequences, FiniteSets, TLC

\* ---------------------------------------------------------------- bounds
MaxFrames == 2     \* coroutine frames created in one run (called or awaited)
MaxOps    == 2     \* suspension points in one coroutine body

\* ------------------------------------------------------------- constants
Null == 0                  \* nullptr / empty coroutine_handle
Vals == {7, 42}            \* values a coroutine may co_return
NoData == {}               \* std::shared_ptr<void> holding nothing
Data(v) == {v}             \* std::make_shared<T>(v)

VARIABLES
    frames,        \* coroutine frames ever created: Seq of frame records
    tasks,         \* Task objects of the caller: Seq of [m_handle, alive]
    m_coroutines,  \* Scheduler::m_coroutines
    m_size,        \* Scheduler::m_size
    pc,            \* position of the caller: "idle" | "loop" (inside resume())
    i,             \* loop index of Scheduler::resume()
    ret,           \* value returned by the last call of resume()
    crashed,       \* the process was aborted by undefined behaviour
    startSlots,    \* history: m_coroutines when the running tick started
    visited        \* history: handles resumed by the running tick, in order

vars == <<frames, tasks, m_coroutines, m_size, pc, i, ret, crashed,
          startSlots, visited>>

\* ------------------------------------------------------ coroutine bodies
SeqsUpTo(S, n) == UNION {[1..k -> S] : k \in 0..n}

\* A body: co_yield ("pause") and co_await of a called coroutine ("await")
\* in any order, then co_return.
Bodies == SeqsUpTo({"pause", "await"}, MaxOps)

RECURSIVE Awaits(_, _)
\* co_await expressions of body b from position k on.
Awaits(b, k) ==
    IF k > Len(b) THEN 0
    ELSE (IF b[k] = "await" THEN 1 ELSE 0) + Awaits(b, k + 1)

RECURSIVE PendingAwaits(_, _)
\* co_await expressions the frames 1..n have not executed yet.
PendingAwaits(F, n) ==
    IF n = 0 THEN 0
    ELSE PendingAwaits(F, n - 1)
         + (IF F[n].st \in {"initial", "suspended"}
            THEN Awaits(F[n].body, F[n].ip) ELSE 0)

\* Bodies a coroutine called now may have: every co_await of the run must
\* still find room for the frame it creates. `now` is 1 when the call is
\* itself the co_await being executed.
CallableBodies(F, now) ==
    {b \in Bodies :
        Len(F) + 1 + (PendingAwaits(F, Len(F)) - now) + Awaits(b, 1) <= MaxFrames}

\* ---------------------------------------------------------------- frames
\* Promise::get_return_object on a fresh frame: m_done = 0, no data, no links;
\* the frame is suspended at initial_suspend (suspend_always).
NewFrame(body, r) ==
    [ body |-> body, ip |-> 1, root |-> r,
      st |-> "initial",
      m_done |-> 0, m_data |-> NoData, m_next |-> Null, m_previous |-> Null,
      awaiter |-> Null,          \* Awaiter::m_handle of the pending co_await
      dtors |-> 0,               \* calls of Promise::~Promise
      \* history
      rv |-> 0,                  \* the value given to co_return (0: not yet)
      readBack |-> 0,            \* what a Result built at the finish reads
      writes |-> 0,              \* resumptions that changed m_data
      resumes |-> 0,             \* resumptions of this frame
      age |-> 0,                 \* root: ticks started since it was scheduled
      linked |-> FALSE,          \* awaited, and the linking tick still runs
      early |-> FALSE,           \* resumed in the tick that linked it
      cell |-> <<>>,             \* Results the parent got from this frame
      pastEarly |-> FALSE ]      \* parent went on in the linking tick or
                                 \* before this frame finished

Init ==
    /\ frames = <<>>
    /\ tasks = <<>>
    /\ m_coroutines = <<>>
    /\ m_size = 0
    /\ pc = "idle"
    /\ i = 0
    /\ ret = FALSE
    /\ crashed = FALSE
    /\ startSlots = <<>>
    /\ visited = <<>>

\* ------------------------------------------------------- Task::Promise
\* Mutant of yield_value: the promise forgets to name itself.
yield_value_lost(p, self) == p

\* Mutant of yield_value: the yielded expression is stored as the result.
yield_value_stores(p, self) == [p EXCEPT !.m_next = self, !.m_data = Data(7)]

\* co_yield: the promise names itself as the frame to resume next.
yield_value(p, self) == [p EXCEPT !.m_next = self]

\* Mutant of return_value: the value is not stored.
return_value_dropped(p, v) == p

\* co_return v: the value is stored behind a fresh shared pointer.
return_value(p, v) == [p EXCEPT !.m_data = Data(v)]

\* Mutant of final_suspend: names the tree's root as next, not the parent.
final_suspend_self(p) == [p EXCEPT !.m_done = 1, !.m_next = p.root]

\* After the body: mark done and point back to the awaiting parent (if any).
final_suspend(p) == [p EXCEPT !.m_done = 1, !.m_next = p.m_previous]

\* Promise::~Promise: release the data and clear both links.
PromiseDtor(p) ==
    [p EXCEPT !.m_data = NoData, !.m_next = Null, !.m_previous = Null,
              !.dtors = @ + 1]

\* -------------------------------------------------------------- Result
\* Result::Result(std::shared_ptr<void>&): the cell shares the given data.
Result(data) == data

\* Result::result<T>() with the T that was stored: the pointer is cast back
\* and dereferenced.  (0 stands for the read of a cell holding nothing.)
result(cell) == IF cell = NoData THEN 0 ELSE CHOOSE v \in cell : TRUE

\* ------------------------------------------------------- Task::Awaiter
await_ready == FALSE

\* Mutant of await_suspend: the child is not told its parent.
await_suspend_one_way(F, parent, child) ==
    [F EXCEPT ![parent].m_next = child]

\* Links parent -> child through m_next and child -> parent through m_previous.
await_suspend(F, parent, child) ==
    [F EXCEPT ![parent].m_next = child, ![child].m_previous = parent]

\* What Result{m_handle.promise().m_data} can hold.  Reading the member of a
\* promise whose destructor already ran is undefined: the build may find the
\* pointer reset (no data) or a stale pointer to any released value.
await_resume(F, child) ==
    IF F[child].dtors = 0 THEN {F[child].m_data}
    ELSE {NoData} \cup {Data(v) : v \in Vals}

\* Whether building/releasing the Result may abort the process: only when the
\* promise was already destructed (stale control block).
await_resume_may_abort(F, child) == F[child].dtors > 0

\* Mutant of AwaiterDtor: the Task's handle is left as it was.
AwaiterDtor_keeps(h) == h

\* Awaiter::~Awaiter writes nullptr through its reference to Task::m_handle.
AwaiterDtor(h) == Null

\* --------------------------------------------------------------- Task
\* coroutine_handle::destroy(): the frame is released, its promise destructed.
HandleDestroy(F, h) ==
    [F EXCEPT ![h] = [PromiseDtor(@) EXCEPT !.st = "destroyed"]]

\* Mutant of TaskDtor: the owned frame is never destroyed.
TaskDtor_leak(F, h) == F

\* Task::~Task on a wrapper holding handle h.
TaskDtor(F, h) == IF h # Null THEN HandleDestroy(F, h) ELSE F

\* ------------------------------------------- coroutine_handle::resume()
Resumable(F, h) == h # Null /\ h <= Len(F) /\ F[h].st \in {"initial", "suspended"}

\* First half of a resumption that continues a pending co_await: the parent
\* obtains the Result (cellv, one of await_resume), then the Awaiter and the
\* temporary Task of the co_await expression are destructed.
PastAwait(F, f, cellv) ==
    IF F[f].awaiter = Null THEN F
    ELSE LET c  == F[f].awaiter
             F1 == [F EXCEPT ![c].cell = Append(@, cellv),
                             ![c].pastEarly = F[c].linked \/ F[c].st # "final",
                             ![f].awaiter = Null]
         IN  TaskDtor(F1, AwaiterDtor(c))

\* Second half: the body runs to its next suspension point.
\*   co_yield          -> yield_value, suspend
\*   co_await g(...)   -> g's frame is created suspended (body cbody), then
\*                        await_ready = false, await_suspend, suspend
\*   co_return v       -> return_value(v), final_suspend
RunToSuspend(F, f, cbody, v) ==
    LET p == [F[f] EXCEPT !.resumes = @ + 1,
                          !.early = F[f].linked,
                          !.st = "suspended"]
    IN  IF p.ip > Len(p.body)
        THEN LET q == final_suspend(return_value(p, v))
             IN  [F EXCEPT ![f] = [q EXCEPT !.st = "final", !.rv = v,
                                            !.readBack = result(Result(q.m_data))]]
        ELSE IF p.body[p.ip] = "pause"
        THEN [F EXCEPT ![f] = [yield_value(p, f) EXCEPT !.ip = @ + 1]]
        ELSE LET c  == Len(F) + 1
                 nf == [NewFrame(cbody, p.root) EXCEPT !.linked = TRUE]
                 F1 == Append([F EXCEPT ![f] = [p EXCEPT !.ip = @ + 1,
                                                         !.awaiter = c]], nf)
             IN  IF await_ready THEN F1 ELSE await_suspend(F1, f, c)

\* History: count, per frame, the resumptions that left its m_data changed.
CountWrites(F, G) ==
    [g \in 1..Len(G) |->
        IF g <= Len(F) /\ G[g].m_data # F[g].m_data
        THEN [G[g] EXCEPT !.writes = @ + 1] ELSE G[g]]

HandleResume(F, f, cellv, cbody, v) ==
    CountWrites(F, RunToSuspend(PastAwait(F, f, cellv), f, cbody, v))

\* Inputs of one resumption: the Result seen by a continuing co_await, the
\* body of the coroutine a co_await is about to call, the value co_returned.
CellChoices(F, f) ==
    IF F[f].awaiter = Null THEN {NoData} ELSE await_resume(F, F[f].awaiter)

NextIsAwait(F, f) ==
    F[f].ip <= Len(F[f].body) /\ F[f].body[F[f].ip] = "await"

ChildChoices(F, f) ==
    IF NextIsAwait(F, f) THEN CallableBodies(F, 1) ELSE {<<>>}

ReturnChoices(F, f) ==
    IF F[f].ip > Len(F[f].body) THEN Vals ELSE {0}

\* ------------------------------------------------------------ caller
\* Calling a coroutine function: the frame is created suspended and wrapped
\* in a Task; no statement of the body has run.
CallCoroutine ==
    /\ pc = "idle" /\ ~crashed
    /\ \E body \in CallableBodies(frames, 0) :
          LET h == Len(frames) + 1 IN
          /\ frames' = Append(frames, NewFrame(body, h))
          /\ tasks' = Append(tasks, [m_handle |-> h, alive |-> TRUE])
    /\ UNCHANGED <<m_coroutines, m_size, pc, i, ret, crashed,
                   startSlots, visited>>

\* Task::~Task run by the caller on one of its Task objects.
TaskDestroy(t) ==
    /\ pc = "idle" /\ ~crashed
    /\ tasks[t].alive
    /\ frames' = TaskDtor(frames, tasks[t].m_handle)
    /\ tasks' = [tasks EXCEPT ![t] = [m_handle |-> Null, alive |-> FALSE]]
    /\ UNCHANGED <<m_coroutines, m_size, pc, i, ret, crashed,
                   startSlots, visited>>

\* --------------------------------------------------------- Scheduler
\* Mutant of schedule: the Task keeps its handle.
schedule_keeps_handle(t) ==
    /\ pc = "idle" /\ ~crashed
    /\ tasks[t].alive /\ tasks[t].m_handle # Null
    /\ m_coroutines' = Append(m_coroutines, tasks[t].m_handle)
    /\ m_size' = m_size + 1
    /\ UNCHANGED <<frames, tasks, pc, i, ret, crashed, startSlots, visited>>

\* Scheduler::schedule(Task&): push the handle, empty the Task, ++m_size.
schedule(t) ==
    /\ pc = "idle" /\ ~crashed
    /\ tasks[t].alive /\ tasks[t].m_handle # Null
    /\ m_coroutines' = Append(m_coroutines, tasks[t].m_handle)
    /\ tasks' = [tasks EXCEPT ![t].m_handle = Null]
    /\ m_size' = m_size + 1
    /\ UNCHANGED <<frames, pc, i, ret, crashed, startSlots, visited>>

\* Mutant of SwapRemove: pop_back without moving the last handle first.
SwapRemove_pop_only(coros, k) == SubSeq(coros, 1, Len(coros) - 1)

\* m_coroutines[i] = std::move(m_coroutines.back()); m_coroutines.pop_back();
SwapRemove(coros, k) ==
    SubSeq([coros EXCEPT ![k] = coros[Len(coros)]], 1, Len(coros) - 1)

\* Mutant of AfterResume: --m_size is forgotten.
AfterResume_nodec(F, coros, size, k, h) ==
    IF F[h].m_next # Null
    THEN [ frames |-> IF F[h].m_done # 0
                      THEN [F EXCEPT ![h] = PromiseDtor(@)] ELSE F,
           coros  |-> [coros EXCEPT ![k] = F[h].m_next],
           size   |-> size ]
    ELSE [ frames |-> [F EXCEPT ![h] = PromiseDtor(@)],
           coros  |-> SwapRemove(coros, k),
           size   |-> size ]

\* Mutant of AfterResume: m_next is written to slot 0 instead of slot i.
AfterResume_front(F, coros, size, k, h) ==
    IF F[h].m_next # Null
    THEN [ frames |-> IF F[h].m_done # 0
                      THEN [F EXCEPT ![h] = PromiseDtor(@)] ELSE F,
           coros  |-> [coros EXCEPT ![1] = F[h].m_next],
           size   |-> size ]
    ELSE [ frames |-> [F EXCEPT ![h] = PromiseDtor(@)],
           coros  |-> SwapRemove(coros, k),
           size   |-> size - 1 ]

\* The body of the for loop after handle.resume() returned, for slot k
\* (1-based) that held handle h: follow m_next or retire the slot.
AfterResume(F, coros, size, k, h) ==
    IF F[h].m_next # Null
    THEN [ frames |-> IF F[h].m_done # 0
                      THEN [F EXCEPT ![h] = PromiseDtor(@)] ELSE F,
           coros  |-> [coros EXCEPT ![k] = F[h].m_next],
           size   |-> size ]
    ELSE [ frames |-> [F EXCEPT ![h] = PromiseDtor(@)],
           coros  |-> SwapRemove(coros, k),
           size   |-> size - 1 ]

\* Mutant of NextIndex: the loop index is not advanced.
NextIndexStay(k) == k

\* ++i
NextIndex(k) == k + 1

\* Roots of the trees that hold a slot.
SlotRoots(F, coros) == {F[coros[k]].root : k \in 1..Len(coros)}

\* The caller keeps calling resume() until it returned true; after a later
\* schedule it calls it again.
resume_enter ==
    /\ pc = "idle" /\ ~crashed
    /\ m_size > 0 \/ ~ret
    /\ pc' = "loop"
    /\ i' = 0
    /\ frames' = [f \in 1..Len(frames) |->
                    IF f \in SlotRoots(frames, m_coroutines)
                    THEN [frames[f] EXCEPT !.age = @ + 1] ELSE frames[f]]
    /\ startSlots' = m_coroutines
    /\ visited' = <<>>
    /\ UNCHANGED <<tasks, m_coroutines, m_size, ret, crashed>>

\* One iteration of  for (size_t i = 0; i < m_size; ++i).
resume_loop ==
    /\ pc = "loop" /\ ~crashed
    /\ i < m_size
    /\ LET h == m_coroutines[i + 1] IN
       /\ Resumable(frames, h)
       /\ \E cellv \in CellChoices(frames, h),
             cbody \in ChildChoices(frames, h),
             v \in ReturnChoices(frames, h) :
             LET F1 == HandleResume(frames, h, cellv, cbody, v)
                 r  == AfterResume(F1, m_coroutines, m_size, i + 1, h)
             IN  /\ frames' = r.frames
                 /\ m_coroutines' = r.coros
                 /\ m_size' = r.size
       /\ visited' = Append(visited, h)
    /\ i' = NextIndex(i)
    /\ UNCHANGED <<tasks, pc, ret, crashed, startSlots>>

\* Undefined behaviour inside handle.resume() that aborts the process:
\* resuming a handle that is not suspended, or building the Result from a
\* promise that was already destructed.
resume_abort ==
    /\ pc = "loop" /\ ~crashed
    /\ i < m_size
    /\ LET h == m_coroutines[i + 1] IN
          \/ ~Resumable(frames, h)
          \/ /\ frames[h].awaiter # Null
             /\ await_resume_may_abort(frames, frames[h].awaiter)
    /\ crashed' = TRUE
    /\ UNCHANGED <<frames, tasks, m_coroutines, m_size, pc, i, ret,
                   startSlots, visited>>

\* Mutant of AllDone: reports whether the pass started with no slot.
AllDoneAtStart(size) == startSlots = <<>>

\* m_size == 0
AllDone(size) == size = 0

\* return m_size == 0;
resume_return ==
    /\ pc = "loop" /\ ~crashed
    /\ ~(i < m_size)
    /\ ret' = AllDone(m_size)
    /\ pc' = "idle"
    /\ frames' = [f \in 1..Len(frames) |-> [frames[f] EXCEPT !.linked = FALSE]]
    /\ startSlots' = <<>>
    /\ visited' = <<>>
    /\ UNCHANGED <<tasks, m_coroutines, m_size, i, crashed>>

Next ==
    \/ CallCoroutine
    \/ \E t \in 1..Len(tasks) : schedule(t)
    \/ \E t \in 1..Len(tasks) : TaskDestroy(t)
    \/ resume_enter
    \/ resume_loop
    \/ resume_abort
    \/ resume_return

Spec == Init /\ [][Next]_vars

\* The caller invokes resume() again and again (it polls until true), and a
\* call that started runs its loop to the end.
FairSpec ==
    /\ Init /\ [][Next]_vars
    /\ WF_vars(resume_enter) /\ WF_vars(resume_loop) /\ WF_vars(resume_return)

\* ================================================================ claims
Frames == 1..Len(frames)
Slots == 1..Len(m_coroutines)
IsRoot(f) == frames[f].root = f
\* Root f was handed to the Scheduler (no Task owns it, it was not destroyed).
Scheduled(f) ==
    /\ IsRoot(f) /\ frames[f].st # "destroyed"
    /\ \A t \in 1..Len(tasks) : tasks[t].m_handle # f
TickOver == pc = "idle"

\* ---------------------------------------------------------------- C1
\* Only root A = frame 1 (body: one co_await) was scheduled; its child B =
\* frame 2 has no suspension point and co_returned 42.
ScenarioAB ==
    /\ Len(frames) = 2
    /\ Scheduled(1) /\ frames[1].body = <<"await">>
    /\ frames[2].root = 1 /\ frames[2].body = <<>> /\ frames[2].rv = 42

\* C1: in the scenario "root A awaits child B, B co_returns 42 on its first
\* resumption", once two calls of resume() are over A has been handed a
\* Result holding 42 and the live count m_size is 0.
C1_TwoTicks ==
    (ScenarioAB /\ TickOver /\ frames[1].age = 2)
        => (m_size = 0 /\ frames[2].cell = <<Data(42)>>)

\* ---------------------------------------------------------------- C2
\* K >= 1 roots, each with the body "one co_yield", were scheduled together
\* and have all seen the same number n of ticks.
SinglePauseBatch(n) ==
    /\ Len(frames) >= 1
    /\ \A f \in Frames :
          Scheduled(f) /\ frames[f].body = <<"pause">> /\ frames[f].age = n

\* C2: K independent single-pause tasks: after the first tick all K are live
\* and each paused once; after the second tick all K are finished, m_size is
\* 0 and resume() returned true.
C2_SinglePause ==
    /\ (SinglePauseBatch(1) /\ TickOver)
          => /\ m_size = Len(frames)
             /\ \A f \in Frames : frames[f].resumes = 1 /\ frames[f].st = "suspended"
    /\ (SinglePauseBatch(2) /\ TickOver)
          => /\ m_size = 0 /\ ret
             /\ \A f \in Frames : frames[f].st = "final"

\* ---------------------------------------------------------------- C3
\* C3: whenever a parent went on past its co_await of child c, the Result it
\* was handed holds data, and the data is the value c gave to co_return.
C3_CellHoldsValue ==
    \A c \in Frames :
        frames[c].cell # <<>> =>
            \A k \in 1..Len(frames[c].cell) : frames[c].cell[k] = Data(frames[c].rv)

\* ---------------------------------------------------------------- C4
\* Resumptions the running tick gave to the tree of root r.
ResumedInTick(r) ==
    Cardinality({k \in 1..Len(visited) : frames[visited[k]].root = r})

LoopOver == pc = "loop" /\ ~(i < m_size)

\* C4: when the loop of a tick ends, every tree that held a slot when the
\* tick started has been resumed exactly once by that tick.
C4_EveryTreeOnce ==
    LoopOver =>
        \A k \in 1..Len(startSlots) : ResumedInTick(frames[startSlots[k]].root) = 1

\* ---------------------------------------------------------------- C5
\* C5: with resume() called again and again, the live count eventually stays
\* zero, and no step of a tick increases it.
C5_ReachesZero ==
    /\ <>[](m_size = 0)
    /\ [][pc = "loop" => m_size' <= m_size]_vars

\* ---------------------------------------------------------------- C6
PauseOnly(f) == Awaits(frames[f].body, 1) = 0
InSlot(f) == \E k \in Slots : m_coroutines[k] = f

\* C6: a frame whose body is N co_yields and no co_await is finished exactly
\* when it has been resumed N+1 times: it is never resumed more often, a
\* scheduled one stays in its slot until then, and a root is retired by the
\* very resumption that finishes it (N = 0: the first one).
C6_PausesPlusOne ==
    \A f \in Frames : PauseOnly(f) =>
        LET N == Len(frames[f].body) IN
        /\ frames[f].resumes <= N + 1
        /\ (frames[f].st = "final") <=> (frames[f].resumes = N + 1)
        /\ (Scheduled(f) /\ frames[f].st # "final") => InSlot(f)
        /\ (IsRoot(f) /\ frames[f].st = "final") => ~InSlot(f)

\* A root with two co_yields finished on its third resumption, and a root
\* with no suspension point on its first.
C6_Witness ==
    /\ \E f \in Frames : /\ IsRoot(f) /\ frames[f].body = <<"pause", "pause">>
                         /\ frames[f].st = "final" /\ frames[f].resumes = 3
    /\ \E f \in Frames : /\ IsRoot(f) /\ frames[f].body = <<>>
                         /\ frames[f].st = "final" /\ frames[f].resumes = 1

\* ---------------------------------------------------------------- C7
\* C7: no awaited frame is first resumed in the tick that linked it to its
\* parent, and no parent goes on past its co_await in that tick or before the
\* awaited frame ran return_value and final_suspend.
C7_AwaitOrder ==
    \A c \in Frames :
        /\ ~frames[c].early
        /\ ~frames[c].pastEarly
        /\ frames[c].cell # <<>> => frames[c].st = "final" /\ frames[c].m_done = 1

\* A parent went on past its co_await of a child that finished.
C7_Witness ==
    \E c \in Frames : ~IsRoot(c) /\ frames[c].cell # <<>> /\ frames[c].resumes >= 1

\* ---------------------------------------------------------------- C8
\* C8: within one tick no tree is resumed twice, whether its slot was removed
\* or its handle replaced by m_next.
C8_AtMostOnce == \A r \in Frames : ResumedInTick(r) <= 1

\* A tick over two slots that went on after removing a slot or after
\* replacing the handle of the first slot by its m_next.
C8_Witness ==
    /\ pc = "loop" /\ Len(startSlots) = 2 /\ Len(visited) >= 1
    /\ \/ Len(m_coroutines) < Len(startSlots)
       \/ m_coroutines[1] # startSlots[1]

\* ---------------------------------------------------------------- C9
\* C9: a step that raises m_size is schedule: it appends the Task's handle as
\* the last slot, raises m_size by one, empties the Task, and changes no
\* frame and no earlier slot; and no frame held by a slot is ever destroyed
\* (a later ~Task of the emptied wrapper does not tear it down).
C9_Schedule ==
    /\ [][m_size' > m_size =>
            \E t \in 1..Len(tasks) :
               /\ tasks[t].m_handle # Null
               /\ m_coroutines' = Append(m_coroutines, tasks[t].m_handle)
               /\ m_size' = m_size + 1
               /\ tasks'[t].m_handle = Null
               /\ frames' = frames]_vars
    /\ [](\A k \in Slots : frames[m_coroutines[k]].st # "destroyed")

\* The Task of a scheduled root was destructed; the frame still waits in its
\* slot, not resumed and not destroyed.
C9_Witness ==
    /\ Len(tasks) = 1 /\ ~tasks[1].alive
    /\ m_coroutines = <<1>> /\ m_size = 1
    /\ frames[1].st = "initial" /\ frames[1].resumes = 0

\* ---------------------------------------------------------------- C10
\* C10: ~Task of a Task owning an unstarted frame destroys exactly that frame
\* and runs none of its body; ~Task of an empty Task changes no frame; the
\* Scheduler's slots are untouched either way.
C10_TaskDtor ==
    [][\A t \in 1..Len(tasks) :
          (tasks[t].alive /\ ~tasks'[t].alive) =>
             LET h == tasks[t].m_handle IN
             /\ m_coroutines' = m_coroutines /\ m_size' = m_size
             /\ IF h = Null THEN frames' = frames
                ELSE /\ frames[h].st = "initial"
                     /\ frames'[h].st = "destroyed"
                     /\ frames'[h].resumes = 0 /\ frames'[h].ip = 1
                     /\ frames'[h].m_data = NoData
                     /\ \A g \in Frames : g # h => frames'[g] = frames[g]]_vars

\* Both kinds happened: Task 1 was destructed owning its unstarted frame,
\* Task 2 was destructed after schedule had emptied it.
C10_Witness ==
    /\ Len(tasks) = 2 /\ ~tasks[1].alive /\ ~tasks[2].alive
    /\ frames[1].st = "destroyed" /\ frames[1].resumes = 0
    /\ frames[2].st # "destroyed" /\ Scheduled(2)

C12_ReturnsAllDone ==
    /\ [][(pc = "loop" /\ pc' = "idle") =>
             /\ ret' = (m_size = 0)
             /\ m_size' = m_size /\ m_coroutines' = m_coroutines]_vars
    /\ []((pc = "loop" /\ startSlots = <<>>) => (visited = <<>> /\ m_size = 0))

\* resume() returned true after a pass that retired the last live tree.
C12_Witness ==
    /\ pc = "idle" /\ ret /\ m_size = 0
    /\ \E f \in Frames : IsRoot(f) /\ frames[f].st = "final"

\* ---------------------------------------------------------------- C13
\* C13: whenever the promise of a finished awaited frame has been destructed
\* by the Scheduler, its parent has already been handed the Result (it went
\* on past its co_await of that frame).
C13_ConsumedBeforeFinalize ==
    \A c \in Frames :
        (~IsRoot(c) /\ frames[c].st = "final" /\ frames[c].dtors > 0)
            => frames[c].cell # <<>>

\* ---------------------------------------------------------------- C14
Unfinished(f) == frames[f].st \in {"initial", "suspended"}
\* Unfinished frames that name p as the frame awaiting them.
ActiveChildren(p) ==
    {c \in Frames : Unfinished(c) /\ frames[c].m_previous = p}

SlotsOf(coros, h) == {k \in 1..Len(coros) : coros[k] = h}

\* C15: a loop iteration whose resumed frame h ended finished with no parent
\* (m_next unset) lowers m_size by exactly one and drops exactly h's slot:
\* every other handle keeps exactly one slot (positions may change); and no
\* other step lowers m_size.
C15_RemoveExactlyOne ==
    [][visited' # visited /\ visited' # <<>> =>
          LET h == m_coroutines[i + 1] IN
          IF frames'[h].st = "final" /\ IsRoot(h)
          THEN /\ m_size' = m_size - 1
               /\ Len(m_coroutines') = Len(m_coroutines) - 1
               /\ SlotsOf(m_coroutines', h) = {}
               /\ \A k \in Slots \ {i + 1} :
                     Cardinality(SlotsOf(m_coroutines', m_coroutines[k])) = 1
          ELSE m_size' = m_size /\ Len(m_coroutines') = Len(m_coroutines)]_vars

\* The first of two slots was retired mid-tick; the tree of the second slot
\* now holds the only slot.
C15_Witness ==
    /\ pc = "loop" /\ Len(startSlots) = 2
    /\ m_coroutines = <<startSlots[2]>> /\ m_size = 1
    /\ frames[startSlots[1]].st = "final"

\* ---------------------------------------------------------------- C16
\* C16: the m_data of a frame that has not finished holds nothing and was
\* never written; a finished frame's m_data was written by exactly one
\* resumption (the one that ran co_return), never by a pause, an await or
\* the resumption of another frame.
C16_ResultOnce ==
    \A f \in Frames :
        /\ frames[f].writes <= 1
        /\ frames[f].st # "final" =>
              frames[f].writes = 0 /\ frames[f].m_data = NoData /\ frames[f].rv = 0
        /\ frames[f].st = "final" => frames[f].writes = 1

\* A frame finished after a suspension point while another frame, already
\* resumed, is still unfinished.
C16_Witness ==
    \E f, g \in Frames :
        /\ frames[f].st = "final" /\ frames[f].writes = 1
        /\ frames[f].resumes >= 2
        /\ frames[g].st = "suspended" /\ frames[g].resumes >= 1
        /\ frames[g].writes = 0

\* ---------------------------------------------------------------- C17
\* C17: every handle held by a slot names a suspended frame that has not
\* finished (m_done clear, promise not destructed), so handle.resume() is
\* never called on a finished or finalized frame.
C17_SlotsResumable ==
    \A k \in Slots :
        LET h == m_coroutines[k] IN
        /\ Resumable(frames, h)
        /\ frames[h].m_done = 0 /\ frames[h].dtors = 0

\* Between two ticks a slot holds a parent again, after the child it awaits
\* finished and was finalized.
C17_Witness ==
    /\ pc = "idle"
    /\ \E k \in Slots :
          LET h == m_coroutines[k] IN
          /\ frames[h].awaiter # Null
          /\ frames[frames[h].awaiter].st = "final"

\* ---------------------------------------------------------------- C18
\* C18: no promise is destructed twice; the Scheduler destructs only promises
\* of finished frames (m_done set), and every finished frame is destructed
\* by the loop iteration that finished it (so within the same tick); the
\* only other destructions are of unstarted frames through ~Task.
C18_FinalizeOnce ==
    \A f \in Frames :
        /\ frames[f].dtors <= 1
        /\ frames[f].st = "final" => frames[f].dtors = 1 /\ frames[f].m_done = 1
        /\ frames[f].dtors = 1 => frames[f].st \in {"final", "destroyed"}
        /\ frames[f].st = "destroyed" => frames[f].resumes = 0

\* A finished child was finalized once, and its parent has since gone past
\* the co_await, destructing the Awaiter and the temporary Task.
C18_Witness ==
    \E c \in Frames :
        /\ ~IsRoot(c) /\ frames[c].st = "final" /\ frames[c].dtors = 1
        /\ frames[c].cell # <<>>
        /\ \A p \in Frames : frames[p].awaiter # c

\* ---------------------------------------------------------------- C19
\* Root r was scheduled and its tree has not finished.
LiveTree(r) == Scheduled(r) /\ frames[r].st # "final"

\* C19: m_size is the number of slots; every slot holds a non-null handle;
\* between calls the slots correspond one-to-one to the scheduled trees that
\* have not finished: each such tree has a slot holding one of its frames,
\* every slot belongs to such a tree, and no two slots to the same tree.
C19_SlotsMatchTrees ==
    /\ m_size = Len(m_coroutines)
    /\ \A k \in Slots : m_coroutines[k] # Null /\ m_coroutines[k] \in Frames
    /\ pc = "idle" =>
          /\ \A r \in Frames :
                LiveTree(r) <=> \E k \in Slots : frames[m_coroutines[k]].root = r
          /\ \A k1, k2 \in Slots :
                frames[m_coroutines[k1]].root = frames[m_coroutines[k2]].root
                    => k1 = k2

\* Between two ticks: two roots, each resumed once and paused, each in its
\* own slot.
C19_Witness ==
    /\ pc = "idle" /\ m_size = 2
    /\ \A k \in Slots : frames[m_coroutines[k]].resumes = 1
    /\ frames[m_coroutines[1]].root # frames[m_coroutines[2]].root

\* ---------------------------------------------------------------- C20
\* C20: when the loop of a tick ends and no slot was removed, the tick
\* resumed exactly the handles it started with, in slot order, and slot k
\* still belongs to the tree it belonged to when the tick started.
C20_OrderKept ==
    (LoopOver /\ Len(m_coroutines) = Len(startSlots)) =>
        /\ visited = startSlots
        /\ \A k \in Slots :
              frames[m_coroutines[k]].root = frames[startSlots[k]].root

\* A tick over two slots ended without retiring either.
C20_Witness ==
    /\ LoopOver /\ Len(startSlots) = 2 /\ Len(m_coroutines) = 2
    /\ Len(visited) = 2

====
